---- MODULE Spec2Model ----
(***************************************************************************)
(* Model of QuestionGenerator/keyword_extractor.py: the KeywordExtractor   *)
(* with its two caches (embedding_cache, keyword_alignment_cache) and its  *)
(* three operations get_embedding, extract_keywords and align_keywords,    *)
(* and of the document guard of QCMGenerator.analyze_md in front of it.    *)
(*                                                                         *)
(* Strings are sequences of Unicode code points, so that the candidate     *)
(* filter (a regular expression over characters) is modelled by what it    *)
(* matches.  Embedding vectors are integer tuples; cosine similarity is    *)
(* compared exactly, with integer arithmetic on squares.                   *)
(*                                                                         *)
(* Each call is one step.  op, ret, calls and clusters record the last     *)
(* call (its arguments, its outcome, the service requests it made, the     *)
(* clusters it built); the record is dropped (Forget) before the next      *)
(* call, so that the caches alone carry the history.  The one call made    *)
(* while a record is still held is the repetition of an align_keywords     *)
(* call with the same arguments (AlignAgain) or, after a clustering call,  *)
(* an align_keywords call on a part of its list (AlignSubList).            *)
(***************************************************************************)
EXTENDS Integers, Sequences, FiniteSets

VARIABLES
    embedding_cache,          \* self.embedding_cache: text -> payload
    keyword_alignment_cache,  \* self.keyword_alignment_cache: keyword -> representative
    op,                       \* the last call: its name and arguments
    ret,                      \* how the last call ended: a value or an exception
    calls,                    \* texts sent to the embedding service by the last call, in order
    clusters,                 \* the clusters built by the last align_keywords call, in order
    raw,                      \* candidate filter alone: the candidate string examined
    kept,                     \* candidate filter alone: "unset", or whether raw was retained
    analysis                  \* analyze_md: the file given and what the call did

vars == <<embedding_cache, keyword_alignment_cache, op, ret, calls, clusters, raw, kept,
          analysis>>

-----------------------------------------------------------------------------
(* Bounds of the model *)

\* longest keyword list passed to align_keywords
MaxLen == 3
\* largest num_keywords passed to extract_keywords
MaxNum == 2
\* longest candidate string examined by the candidate filter alone
MaxStrLen == 3
\* longest file content given to analyze_md
MaxDocLen == 201

-----------------------------------------------------------------------------
(* Texts *)

\* "chat"
kChat == <<99, 104, 97, 116>>
\* "chats"
kChats == <<99, 104, 97, 116, 115>>
\* "chien"
kChien == <<99, 104, 105, 101, 110>>
\* "module1"
kModule1 == <<109, 111, 100, 117, 108, 101, 49>>
\* a document: "chats, chien"
Doc == <<99, 104, 97, 116, 115, 44, 32, 99, 104, 105, 101, 110>>

Keywords == {kChat, kChats, kChien}
\* what the linguistic annotator and TF-IDF may propose for a document
RawPool == {kChat, kChien, kModule1}
Texts == Keywords \cup {Doc}

\* characters of the strings given to the candidate filter alone:
\* a, e-acute, 1, hyphen, space, multiplication sign, full stop
Alphabet == {97, 233, 49, 45, 32, 215, 46}

\* the default of align_keywords' threshold, in hundredths
DefaultThreshold == 85
Thresholds == {50, DefaultThreshold}
NumKeywords == (0 - 1) .. MaxNum

\* how a call ends: a returned value, or an exception raised to the caller
Value(v) == [kind |-> "value", val |-> v, exc |-> "none"]
Raise(e) == [kind |-> "raise", val |-> <<>>, exc |-> e]

EmptyFn == [x \in {} |-> x]

SeqsUpTo(S, n) == UNION {[1..k -> S] : k \in 0..n}

Range(s) == {s[i] : i \in 1..Len(s)}

Put(f, k, v) == [x \in DOMAIN f \cup {k} |-> IF x = k THEN v ELSE f[x]]

-----------------------------------------------------------------------------
(* The embedding service (ollama.embeddings) *)

\* the vector the embedding model computes for a text: "chat" is close to
\* "chats" (cosine 0.89) and "chats" to "chien" (0.95), "chat" is not close
\* to "chien" (0.71); no cosine between two texts equals a threshold
Embed(t) ==
    CASE t = kChat  -> <<1, 0>>
      [] t = kChats -> <<2, 1>>
      [] t = kChien -> <<1, 1>>
      [] OTHER      -> <<3, 1>>

\* what one call of the service may do: answer with the vector, answer with
\* an empty 'embedding' list, or fail with an exception
Outcomes == {"vector", "empty", "fail"}

ServicePayload(t, outcome) == IF outcome = "vector" THEN Embed(t) ELSE <<>>

\* a payload of the embedding model's dimension
WellFormed(v) == Len(v) = 2

-----------------------------------------------------------------------------
(* get_embedding *)

\* get_embedding without the cache lookup: the service is asked every time
get_embedding_uncached(cache, text, outcome) ==
    IF outcome = "fail"
    THEN [cache |-> cache, called |-> TRUE, ok |-> FALSE, val |-> <<>>]
    ELSE [cache |-> Put(cache, text, ServicePayload(text, outcome)),
          called |-> TRUE, ok |-> TRUE, val |-> ServicePayload(text, outcome)]

get_embedding(cache, text, outcome) ==
    IF text \in DOMAIN cache
    THEN [cache |-> cache, called |-> FALSE, ok |-> TRUE, val |-> cache[text]]
    ELSE IF outcome = "fail"
    THEN [cache |-> cache, called |-> TRUE, ok |-> FALSE, val |-> <<>>]
    ELSE [cache |-> Put(cache, text, ServicePayload(text, outcome)),
          called |-> TRUE, ok |-> TRUE, val |-> ServicePayload(text, outcome)]

\* FetchAll asking the service a second time for a text it failed on
RECURSIVE FetchAllRetrying(_, _, _, _, _)
FetchAllRetrying(cache, texts, i, resp, sent) ==
    IF i > Len(texts)
    THEN [cache |-> cache, calls |-> sent, ok |-> TRUE]
    ELSE LET g == get_embedding(cache, texts[i],
                                IF texts[i] \in DOMAIN resp THEN resp[texts[i]] ELSE "vector")
             s == IF g.called THEN Append(sent, texts[i]) ELSE sent
         IN IF g.ok THEN FetchAllRetrying(g.cache, texts, i + 1, resp, s)
            ELSE [cache |-> g.cache, calls |-> Append(s, texts[i]), ok |-> FALSE]

\* {k: self.get_embedding(k) for k in texts}: the texts in order, stopping at
\* the first failure
RECURSIVE FetchAll(_, _, _, _, _)
FetchAll(cache, texts, i, resp, sent) ==
    IF i > Len(texts)
    THEN [cache |-> cache, calls |-> sent, ok |-> TRUE]
    ELSE LET g == get_embedding(cache, texts[i],
                                IF texts[i] \in DOMAIN resp THEN resp[texts[i]] ELSE "vector")
             s == IF g.called THEN Append(sent, texts[i]) ELSE sent
         IN IF g.ok THEN FetchAll(g.cache, texts, i + 1, resp, s)
            ELSE [cache |-> g.cache, calls |-> s, ok |-> FALSE]

-----------------------------------------------------------------------------
(* Cosine similarity (sklearn.metrics.pairwise.cosine_similarity) *)

RECURSIVE DotFrom(_, _, _)
DotFrom(u, v, i) == IF i > Len(u) THEN 0 ELSE u[i] * v[i] + DotFrom(u, v, i + 1)

Dot(u, v) == DotFrom(u, v, 1)

Norm2(u) == Dot(u, u)

\* cosine_similarity raises ValueError on an array with no feature and on
\* two arrays of different dimensions
CosineDefined(u, v) == Len(u) > 0 /\ Len(u) = Len(v)

\* cosine(u, v) >= pct / 100, by signs and squares; a zero vector is left
\* unnormalised by sklearn, which makes its cosine 0
CosineGE(u, v, pct) ==
    LET d == 100 * Dot(u, v)
        nn == Norm2(u) * Norm2(v)
    IN IF nn = 0 THEN 0 >= pct
       ELSE IF d >= 0 /\ pct <= 0 THEN TRUE
       ELSE IF d < 0 /\ pct >= 0 THEN FALSE
       ELSE IF d >= 0 THEN d * d >= pct * pct * nn
       ELSE d * d <= pct * pct * nn

\* cosine(u, d) > cosine(v, d): u scores strictly higher than v against d
ScoreGT(u, v, d) ==
    LET a == Dot(u, d)
        b == Dot(v, d)
        na == IF Norm2(u) = 0 THEN 1 ELSE Norm2(u)
        nb == IF Norm2(v) = 0 THEN 1 ELSE Norm2(v)
    IN IF a >= 0 /\ b < 0 THEN TRUE
       ELSE IF a < 0 /\ b >= 0 THEN FALSE
       ELSE IF a >= 0 THEN a * a * nb > b * b * na
       ELSE a * a * nb < b * b * na

-----------------------------------------------------------------------------
(* align_keywords *)

\* all(k in self.keyword_alignment_cache for k in keywords)
AllCached(kcache, keywords) == \A i \in 1..Len(keywords) : keywords[i] \in DOMAIN kcache

\* the similarity matrix can be computed: no pair i < j raises
MatrixDefined(emb, keywords) ==
    \A i \in 1..Len(keywords) : \A j \in (i + 1)..Len(keywords) :
        CosineDefined(emb[keywords[i]], emb[keywords[j]])

\* SeedCluster that also takes what is similar to a member similar to the seed
SeedClusterTransitive(emb, keywords, threshold, i) ==
    LET near(a) == {keywords[j] : j \in {j \in 1..Len(keywords) :
                        keywords[j] # a /\ CosineGE(emb[a], emb[keywords[j]], threshold)}}
    IN {keywords[i]} \cup near(keywords[i])
           \cup UNION {near(m) : m \in near(keywords[i])}

\* the cluster seeded by keywords[i]
SeedCluster(emb, keywords, threshold, i) ==
    {keywords[i]} \cup
    {keywords[j] : j \in {j \in 1..Len(keywords) :
                            j # i /\ CosineGE(emb[keywords[i]], emb[keywords[j]], threshold)}}

\* BuildClusters with clusters.insert(0, cluster) for clusters.append(cluster)
RECURSIVE BuildClustersPrepended(_, _, _, _, _, _)
BuildClustersPrepended(emb, keywords, threshold, i, used, acc) ==
    IF i > Len(keywords) THEN acc
    ELSE IF keywords[i] \in used
    THEN BuildClustersPrepended(emb, keywords, threshold, i + 1, used, acc)
    ELSE LET cluster == SeedCluster(emb, keywords, threshold, i)
         IN BuildClustersPrepended(emb, keywords, threshold, i + 1,
                                   used \cup cluster, <<cluster>> \o acc)

RECURSIVE BuildClusters(_, _, _, _, _, _)
BuildClusters(emb, keywords, threshold, i, used, acc) ==
    IF i > Len(keywords) THEN acc
    ELSE IF keywords[i] \in used
    THEN BuildClusters(emb, keywords, threshold, i + 1, used, acc)
    ELSE LET cluster == SeedCluster(emb, keywords, threshold, i)
         IN BuildClusters(emb, keywords, threshold, i + 1,
                          used \cup cluster, Append(acc, cluster))

Count(keywords, k) == Cardinality({i \in 1..Len(keywords) : keywords[i] = k})

FirstIndex(keywords, k) ==
    CHOOSE i \in 1..Len(keywords) :
        keywords[i] = k /\ \A j \in 1..(i - 1) : keywords[j] # k

\* Representative taking the first member in list order, whatever its count
RepresentativeFirstSeen(keywords, cluster) ==
    CHOOSE k \in cluster :
        \A m \in cluster : FirstIndex(keywords, k) <= FirstIndex(keywords, m)

\* max(counts.items(), key = count)[0] over a Counter filled in list order:
\* the first key, in order of first occurrence, whose count is maximal
Representative(keywords, cluster) ==
    CHOOSE k \in cluster :
        /\ \A m \in cluster : Count(keywords, m) <= Count(keywords, k)
        /\ \A m \in cluster :
               Count(keywords, m) = Count(keywords, k)
                   => FirstIndex(keywords, k) <= FirstIndex(keywords, m)

\* WriteCluster that leaves out the representative's own entry
WriteClusterButLabel(kcache, cluster, rep) ==
    [x \in DOMAIN kcache \cup (cluster \ {rep}) |->
        IF x \in cluster \ {rep} THEN rep ELSE kcache[x]]

\* WriteCluster that rebuilds the cache from the cluster alone
WriteClusterAlone(kcache, cluster, rep) == [x \in cluster |-> rep]

\* for k in cluster: self.keyword_alignment_cache[k] = representative
WriteCluster(kcache, cluster, rep) ==
    [x \in DOMAIN kcache \cup cluster |-> IF x \in cluster THEN rep ELSE kcache[x]]

\* WriteClusters that records the first cluster only
WriteFirstClusterOnly(kcache, keywords, cls, i) ==
    IF cls = <<>> THEN kcache
    ELSE WriteCluster(kcache, cls[1], Representative(keywords, cls[1]))

RECURSIVE WriteClusters(_, _, _, _)
WriteClusters(kcache, keywords, cls, i) ==
    IF i > Len(cls) THEN kcache
    ELSE WriteClusters(WriteCluster(kcache, cls[i], Representative(keywords, cls[i])),
                       keywords, cls, i + 1)

\* EmptyResult with the empty list rejected instead of answered
EmptyInputRejected(ecache, kcache) ==
    [ret |-> Raise("ValueError"), ecache |-> ecache, kcache |-> kcache,
     calls |-> <<>>, clusters |-> <<>>, path |-> "empty"]

\* if not keywords: return []
EmptyResult(ecache, kcache) ==
    [ret |-> Value(<<>>), ecache |-> ecache, kcache |-> kcache,
     calls |-> <<>>, clusters |-> <<>>, path |-> "empty"]

\* CachedRepresentatives answering with the keywords themselves
KeywordsThemselves(kcache, keywords) == keywords

\* [self.keyword_alignment_cache[k] for k in keywords]
CachedRepresentatives(kcache, keywords) ==
    [i \in 1..Len(keywords) |-> kcache[keywords[i]]]

\* the whole call, from the caches before it and the service's outcomes
align_keywords(ecache, kcache, keywords, threshold, resp) ==
    IF keywords = <<>>
    THEN EmptyResult(ecache, kcache)
    ELSE IF AllCached(kcache, keywords)
    THEN [ret |-> Value(CachedRepresentatives(kcache, keywords)),
          ecache |-> ecache, kcache |-> kcache,
          calls |-> <<>>, clusters |-> <<>>, path |-> "fast"]
    ELSE LET f == FetchAll(ecache, keywords, 1, resp, <<>>)
         IN IF ~f.ok
            THEN [ret |-> Raise("ServiceFailure"), ecache |-> f.cache, kcache |-> kcache,
                  calls |-> f.calls, clusters |-> <<>>, path |-> "slow"]
            ELSE IF ~MatrixDefined(f.cache, keywords)
            THEN [ret |-> Raise("ValueError"), ecache |-> f.cache, kcache |-> kcache,
                  calls |-> f.calls, clusters |-> <<>>, path |-> "slow"]
            ELSE LET cls == BuildClusters(f.cache, keywords, threshold, 1, {}, <<>>)
                 IN [ret |-> Value([i \in 1..Len(cls) |->
                                        Representative(keywords, cls[i])]),
                     ecache |-> f.cache,
                     kcache |-> WriteClusters(kcache, keywords, cls, 1),
                     calls |-> f.calls, clusters |-> cls, path |-> "slow"]

-----------------------------------------------------------------------------
(* extract_keywords *)

\* what \s matches in a str pattern
Whitespace == (9..13) \cup (28..32) \cup {133, 160, 5760, 8232, 8233, 8239, 8287, 12288}
                \cup (8192..8202)

\* one character of the class [a-zA-Z\u00C0-\u00FF\s-]
InClass(c) ==
    \/ c \in 97..122
    \/ c \in 65..90
    \/ c \in 192..255
    \/ c \in Whitespace
    \/ c = 45

\* len(k) > 2 and re.match(r'^[a-zA-Z\u00C0-\u00FF\s-]+$', k)
KeepCandidate(k) == Len(k) > 2 /\ \A i \in 1..Len(k) : InClass(k[i])

FilterCandidates(proposed) == {k \in proposed : KeepCandidate(k)}

\* the orders in which a set may be iterated
Orders(S) == {s \in [1..Cardinality(S) -> S] : Range(s) = S}

\* every score can be computed: no candidate's cosine against the text raises
ScoresDefined(emb, order, text) ==
    \A i \in 1..Len(order) : CosineDefined(emb[order[i]], emb[text])

\* x placed in a sequence sorted by decreasing score, after the items that
\* score at least as high (sorted is stable, also with reverse = True)
InsertByScore(emb, text, acc, x) ==
    LET lower == {j \in 1..Len(acc) : ScoreGT(emb[x], emb[acc[j]], emb[text])}
        at == IF lower = {} THEN Len(acc) + 1
              ELSE CHOOSE j \in lower : \A m \in lower : j <= m
    IN SubSeq(acc, 1, at - 1) \o <<x>> \o SubSeq(acc, at, Len(acc))

RECURSIVE SortByScore(_, _, _, _, _)
SortByScore(emb, text, order, i, acc) ==
    IF i > Len(order) THEN acc
    ELSE SortByScore(emb, text, order, i + 1, InsertByScore(emb, text, acc, order[i]))

\* SliceTo without the slice: every scored candidate is returned
SliceIgnored(s, n) == s

\* s[:n]
SliceTo(s, n) ==
    IF n >= 0 THEN SubSeq(s, 1, IF n < Len(s) THEN n ELSE Len(s))
    ELSE SubSeq(s, 1, IF Len(s) + n > 0 THEN Len(s) + n ELSE 0)

\* the whole call; order is the iteration order of the candidate set
extract_keywords(ecache, text, proposed, order, num_keywords, resp) ==
    LET f == FetchAll(ecache, Append(order, text), 1, resp, <<>>)
    IN IF ~f.ok
       THEN [ret |-> Raise("ServiceFailure"), ecache |-> f.cache, calls |-> f.calls]
       ELSE IF ~ScoresDefined(f.cache, order, text)
       THEN [ret |-> Raise("ValueError"), ecache |-> f.cache, calls |-> f.calls]
       ELSE [ret |-> Value(SliceTo(SortByScore(f.cache, text, order, 1, <<>>),
                                   num_keywords)),
             ecache |-> f.cache, calls |-> f.calls]

-----------------------------------------------------------------------------
(* The extractor as a state machine *)

NoOp == [name |-> "none", text |-> <<>>, keywords |-> <<>>, threshold |-> 0,
         num |-> 0, proposed |-> {}, candidates |-> {}, path |-> "none",
         cold |-> FALSE]

NoRet == [kind |-> "none", val |-> <<>>, exc |-> "none"]

\* a file as read_markdown sees it: unreadable (None), or its content
Unreadable == [readable |-> FALSE, content |-> <<>>]

NoAnalysis == [file |-> Unreadable, done |-> FALSE, result |-> "none",
               extracted |-> FALSE, llm |-> FALSE]

Init ==
    /\ embedding_cache = EmptyFn
    /\ keyword_alignment_cache = EmptyFn
    /\ op = NoOp
    /\ ret = NoRet
    /\ calls = <<>>
    /\ clusters = <<>>
    /\ raw = <<>>
    /\ kept = "unset"
    /\ analysis = NoAnalysis

\* a call is made once the record of the previous one has been dropped
Idle == op.name = "none"

GetEmbedding ==
    /\ Idle
    /\ \E text \in Texts :
       \E outcome \in (IF text \in DOMAIN embedding_cache THEN {"vector"} ELSE Outcomes) :
        LET g == get_embedding(embedding_cache, text, outcome)
        IN /\ embedding_cache' = g.cache
           /\ op' = [NoOp EXCEPT !.name = "get_embedding", !.text = text]
           /\ ret' = IF g.ok THEN Value(g.val) ELSE Raise("ServiceFailure")
           /\ calls' = IF g.called THEN <<text>> ELSE <<>>
           /\ clusters' = <<>>
           /\ UNCHANGED <<keyword_alignment_cache, raw, kept, analysis>>

\* the texts of a list the service would be asked for
Uncached(ecache, texts) == texts \ DOMAIN ecache

\* the service's outcome for each text of S it would be asked for
Responses(ecache, S) == [Uncached(ecache, S) -> Outcomes]

ExtractKeywords ==
    /\ Idle
    /\ \E proposed \in SUBSET RawPool, num_keywords \in NumKeywords :
       \E order \in Orders(FilterCandidates(proposed)) :
       \E resp \in Responses(embedding_cache, Range(order) \cup {Doc}) :
        LET e == extract_keywords(embedding_cache, Doc, proposed, order,
                                  num_keywords, resp)
        IN /\ embedding_cache' = e.ecache
           /\ op' = [NoOp EXCEPT !.name = "extract_keywords", !.text = Doc,
                                 !.num = num_keywords, !.proposed = proposed,
                                 !.candidates = FilterCandidates(proposed)]
           /\ ret' = e.ret
           /\ calls' = e.calls
           /\ clusters' = <<>>
           /\ UNCHANGED <<keyword_alignment_cache, raw, kept, analysis>>

\* one align_keywords call from the current caches
Align(keywords, threshold) ==
    \E resp \in Responses(embedding_cache,
                          IF keywords = <<>> \/ AllCached(keyword_alignment_cache, keywords)
                          THEN {} ELSE Range(keywords)) :
        LET a == align_keywords(embedding_cache, keyword_alignment_cache,
                                keywords, threshold, resp)
        IN /\ embedding_cache' = a.ecache
           /\ keyword_alignment_cache' = a.kcache
           /\ op' = [NoOp EXCEPT !.name = "align_keywords", !.keywords = keywords,
                                 !.threshold = threshold, !.path = a.path,
                                 !.cold = (keyword_alignment_cache = EmptyFn)]
           /\ ret' = a.ret
           /\ calls' = a.calls
           /\ clusters' = a.clusters
           /\ UNCHANGED <<raw, kept, analysis>>

AlignKeywords ==
    /\ Idle
    /\ \E keywords \in SeqsUpTo(Keywords, MaxLen), threshold \in Thresholds :
           Align(keywords, threshold)

\* the caller repeats the align_keywords call it has just made
AlignAgain ==
    /\ op.name = "align_keywords"
    /\ Align(op.keywords, op.threshold)

\* consecutive items of a list
SubLists(t) == {SubSeq(t, a, b) : a \in 1..(Len(t) + 1), b \in 0..Len(t)}

\* the caller follows a clustering call with a call on a part of its list
AlignSubList ==
    /\ op.name = "align_keywords" /\ op.path = "slow" /\ ret.kind = "value"
    /\ \E keywords \in SubLists(op.keywords) \ {op.keywords}, threshold \in Thresholds :
           Align(keywords, threshold)

\* the caller is done with the last call's result
Forget ==
    /\ ~Idle
    /\ op' = NoOp
    /\ ret' = NoRet
    /\ calls' = <<>>
    /\ clusters' = <<>>
    /\ UNCHANGED <<embedding_cache, keyword_alignment_cache, raw, kept, analysis>>

Next ==
    \/ GetEmbedding \/ ExtractKeywords \/ AlignKeywords
    \/ AlignAgain \/ AlignSubList \/ Forget

Spec == Init /\ [][Next]_vars

-----------------------------------------------------------------------------
(* The candidate filter alone *)

InitFilter ==
    /\ embedding_cache = EmptyFn
    /\ keyword_alignment_cache = EmptyFn
    /\ op = NoOp
    /\ ret = NoRet
    /\ calls = <<>>
    /\ clusters = <<>>
    /\ raw \in SeqsUpTo(Alphabet, MaxStrLen)
    /\ kept = "unset"
    /\ analysis = NoAnalysis

ApplyFilter ==
    /\ kept = "unset"
    /\ kept' = IF FilterCandidates({raw}) = {raw} THEN "kept" ELSE "dropped"
    /\ UNCHANGED <<embedding_cache, keyword_alignment_cache, op, ret, calls, clusters, raw,
                   analysis>>

NextFilter == ApplyFilter

SpecFilter == InitFilter /\ [][NextFilter]_vars

-----------------------------------------------------------------------------
(* analyze_md (QuestionGenerator/qcm_generator.py) *)

\* the length under which a document is too short to be analysed
MinDocLength == 200
\* the num_keywords analyze_md asks extract_keywords for
AnalyzeNumKeywords == 5

\* the files analyze_md may be given: an unreadable one, and one of each
\* length up to MaxDocLen
Files ==
    {Unreadable} \cup {[readable |-> TRUE, content |-> [i \in 1..n |-> 97]] : n \in 0..MaxDocLen}

\* TooShort with len(content) <= 200
TooShortInclusive(file) ==
    ~file.readable \/ file.content = <<>> \/ Len(file.content) <= MinDocLength

\* not content or len(content) < 200, content being read_markdown's result
TooShort(file) ==
    ~file.readable \/ file.content = <<>> \/ Len(file.content) < MinDocLength

\* what may happen after the keywords are extracted: the user prompt cannot
\* be read (raised to the caller), the system prompt cannot be read or the
\* LLM call or the parsing of its answer fails (None), or questions come back
AfterExtraction == {"prompt_error", "system_prompt_error", "chat_error", "questions"}

InitAnalyze ==
    /\ embedding_cache = EmptyFn
    /\ keyword_alignment_cache = EmptyFn
    /\ op = NoOp
    /\ ret = NoRet
    /\ calls = <<>>
    /\ clusters = <<>>
    /\ raw = <<>>
    /\ kept = "unset"
    /\ analysis \in {[NoAnalysis EXCEPT !.file = f] : f \in Files}

\* the guard's early return
AnalyzeTooShort ==
    /\ ~analysis.done
    /\ TooShort(analysis.file)
    /\ analysis' = [analysis EXCEPT !.done = TRUE, !.result = "None"]
    /\ UNCHANGED <<embedding_cache, keyword_alignment_cache, op, ret, calls, clusters,
                   raw, kept>>

\* the call past the guard: extract_keywords, the prompt, the LLM
AnalyzeDocument ==
    /\ ~analysis.done
    /\ ~TooShort(analysis.file)
    /\ \E proposed \in SUBSET RawPool, after \in AfterExtraction :
       \E order \in Orders(FilterCandidates(proposed)) :
       \E resp \in Responses(embedding_cache, Range(order) \cup {analysis.file.content}) :
        LET e == extract_keywords(embedding_cache, analysis.file.content, proposed,
                                  order, AnalyzeNumKeywords, resp)
            extracted == e.ret.kind = "value"
        IN /\ embedding_cache' = e.ecache
           /\ op' = [NoOp EXCEPT !.name = "extract_keywords",
                                 !.text = analysis.file.content,
                                 !.num = AnalyzeNumKeywords, !.proposed = proposed,
                                 !.candidates = FilterCandidates(proposed)]
           /\ ret' = e.ret
           /\ calls' = e.calls
           /\ analysis' =
                  [analysis EXCEPT
                      !.done = TRUE,
                      !.extracted = TRUE,
                      !.llm = extracted /\ after \in {"chat_error", "questions"},
                      !.result = IF ~extracted \/ after = "prompt_error" THEN "raise"
                                 ELSE IF after = "questions" THEN "questions"
                                 ELSE "None"]
           /\ UNCHANGED <<keyword_alignment_cache, clusters, raw, kept>>

NextAnalyze == AnalyzeTooShort \/ AnalyzeDocument

SpecAnalyze == InitAnalyze /\ [][NextAnalyze]_vars

-----------------------------------------------------------------------------
(* Properties of align_keywords *)

IsAlign == op.name = "align_keywords"
IsExtract == op.name = "extract_keywords"
IsGet == op.name = "get_embedding"
Returned == ret.kind = "value"

\* C1: starting from an empty keyword_alignment_cache, a non-empty list
\* aligned twice in a row with the same threshold gives the same list both
\* times.
C1_Idempotent ==
    [][(/\ IsAlign /\ op.cold /\ op.keywords # <<>> /\ Returned
        /\ op'.name = "align_keywords"
        /\ op'.keywords = op.keywords
        /\ op'.threshold = op.threshold)
       => ret' = ret]_vars

\* the position in the input of the seed of the i-th cluster: the first
\* keyword that belongs to no earlier cluster
SeedPosition(keywords, cls, i) ==
    LET earlier == UNION {cls[j] : j \in 1..(i - 1)}
        free == {p \in 1..Len(keywords) : keywords[p] \notin earlier}
    IN IF free = {} THEN 0 ELSE CHOOSE p \in free : \A q \in free : p <= q

\* the returned list has one representative per cluster, in the order in
\* which the clusters' seeds first appear in the input
OnePerClusterInSeedOrder ==
    /\ Len(ret.val) = Len(clusters)
    /\ \A i \in 1..Len(clusters) :
           /\ ret.val[i] \in clusters[i]
           /\ SeedPosition(op.keywords, clusters, i) # 0
           /\ op.keywords[SeedPosition(op.keywords, clusters, i)] \in clusters[i]
           /\ \A j \in 1..(i - 1) :
                  op.keywords[SeedPosition(op.keywords, clusters, i)] \notin clusters[j]

\* C2 as stated: every align_keywords call that returns, on a cold or a
\* warm cache, returns exactly one representative per cluster formed, in
\* cluster-creation order.
C2_EveryCallOnePerCluster == (IsAlign /\ Returned) => OnePerClusterInSeedOrder

\* C2 as amended: every align_keywords call that builds clusters (some
\* keyword of the input has no cached alignment) and returns, returns
\* exactly one representative per cluster, in cluster-creation order.
C2_SlowPathOnePerCluster ==
    (IsAlign /\ Returned /\ op.path = "slow") => OnePerClusterInSeedOrder

C2_Witness ==
    /\ IsAlign /\ Returned /\ op.path = "slow"
    /\ ~op.cold
    /\ Len(op.keywords) = 3
    /\ Len(clusters) = 2
    /\ ret.val[1] # ret.val[2]

\* C3: when every keyword of a non-empty input has a cached alignment, the
\* call returns the cached representative of each keyword in input order,
\* for any threshold, asks the embedding service nothing and leaves both
\* caches as they were.
C3_FastPath ==
    [][(/\ op'.name = "align_keywords"
        /\ op'.keywords # <<>>
        /\ AllCached(keyword_alignment_cache, op'.keywords))
       => /\ ret' = Value([i \in 1..Len(op'.keywords) |->
                              keyword_alignment_cache[op'.keywords[i]]])
          /\ calls' = <<>>
          /\ embedding_cache' = embedding_cache
          /\ keyword_alignment_cache' = keyword_alignment_cache]_vars

\* "chats" is aligned to "chat" and a call with ["chats"] has returned ["chat"]
C3_Witness ==
    /\ IsAlign /\ op.path = "fast"
    /\ op.keywords = <<kChats>>
    /\ kChats \in DOMAIN keyword_alignment_cache
    /\ keyword_alignment_cache[kChats] = kChat
    /\ ret = Value(<<kChat>>)
    /\ calls = <<>>

\* C4: align_keywords([]) returns [] in every state, asks the embedding
\* service nothing and leaves both caches as they were.
C4_EmptyInput ==
    [][(op'.name = "align_keywords" /\ op'.keywords = <<>>)
       => /\ ret' = Value(<<>>)
          /\ calls' = <<>>
          /\ embedding_cache' = embedding_cache
          /\ keyword_alignment_cache' = keyword_alignment_cache]_vars

C4_Witness ==
    /\ IsAlign /\ op.keywords = <<>>
    /\ ret = Value(<<>>)
    /\ embedding_cache # EmptyFn
    /\ keyword_alignment_cache # EmptyFn

\* C5: on a cold cache, three distinct keywords a, b, c in that order with
\* similarity(a, b) >= threshold and similarity(a, c) < threshold give
\* exactly the two clusters {a, b} and {c}, the first represented by a or b.
C5_TwoClusters ==
    (/\ IsAlign /\ op.cold /\ Returned
     /\ Len(op.keywords) = 3
     /\ Cardinality(Range(op.keywords)) = 3
     /\ CosineGE(embedding_cache[op.keywords[1]], embedding_cache[op.keywords[2]],
                 op.threshold)
     /\ ~CosineGE(embedding_cache[op.keywords[1]], embedding_cache[op.keywords[3]],
                  op.threshold))
    => /\ clusters = <<{op.keywords[1], op.keywords[2]}, {op.keywords[3]}>>
       /\ Len(ret.val) = 2
       /\ ret.val[1] \in {op.keywords[1], op.keywords[2]}

-----------------------------------------------------------------------------
(* Properties of extract_keywords *)

NoRepeat(s) == \A i, j \in 1..Len(s) : i # j => s[i] # s[j]

\* the returned keywords are candidates, without repeats, by non-increasing
\* similarity to the document, and at most num_keywords of them
TopCandidates ==
    /\ Len(ret.val) <= op.num
    /\ \A i \in 1..Len(ret.val) : ret.val[i] \in op.candidates
    /\ NoRepeat(ret.val)
    /\ \A i, j \in 1..Len(ret.val) :
           i < j => ~ScoreGT(embedding_cache[ret.val[j]], embedding_cache[ret.val[i]],
                             embedding_cache[op.text])

\* C6 as stated: for every non-empty candidate set and every num_keywords,
\* extract_keywords returns at most num_keywords candidates, none repeated,
\* by non-increasing similarity to the document.
C6_AnyNum == (IsExtract /\ Returned /\ op.candidates # {}) => TopCandidates

\* C6 as amended: the same for every num_keywords >= 0.
C6_NonNegativeNum ==
    (IsExtract /\ Returned /\ op.candidates # {} /\ op.num >= 0) => TopCandidates

\* two candidates, one keyword asked for: the better one is returned
C6_Witness ==
    /\ IsExtract /\ Returned
    /\ Cardinality(op.candidates) = 2
    /\ op.num = 1
    /\ Len(ret.val) = 1

\* C7: when no candidate survives the filter, extract_keywords returns an
\* empty sequence and raises nothing, whatever the embedding service does.
C7_NoCandidates == (IsExtract /\ op.candidates = {}) => ret = Value(<<>>)

\* a letter, among the code points up to U+00FF
IsLetter(c) ==
    \/ c \in 65..90
    \/ c \in 97..122
    \/ c \in {170, 181, 186}
    \/ c \in 192..214
    \/ c \in 216..246
    \/ c \in 248..255

\* C8: a string that survives the candidate filter is longer than 2
\* characters and made only of letters, whitespace and hyphens.
C8_OnlyLetters ==
    kept = "kept"
    => /\ Len(raw) > 2
       /\ \A i \in 1..Len(raw) :
              IsLetter(raw[i]) \/ raw[i] \in Whitespace \/ raw[i] = 45

-----------------------------------------------------------------------------
(* Properties of get_embedding *)

\* C9: an embedding_cache entry, once written, is never overwritten or
\* removed by a later call; get_embedding of a cached text returns the
\* cached vector; the service is never asked for a text that is cached, nor
\* twice for a text within one call.
C9_CacheStable ==
    [][/\ \A t \in DOMAIN embedding_cache :
              t \in DOMAIN embedding_cache' /\ embedding_cache'[t] = embedding_cache[t]
       /\ \A i \in 1..Len(calls') : calls'[i] \notin DOMAIN embedding_cache
       /\ NoRepeat(calls')
       /\ (op'.name = "get_embedding" /\ op'.text \in DOMAIN embedding_cache)
              => ret' = Value(embedding_cache[op'.text])]_vars

\* a get_embedding answered from the cache
C9_Witness ==
    /\ IsGet /\ Returned
    /\ calls = <<>>
    /\ op.text \in DOMAIN embedding_cache
    /\ ret.val = embedding_cache[op.text]

\* C10: get_embedding fails with EmbeddingServiceError when the service
\* fails or answers malformed data; a malformed payload is neither returned
\* nor stored in embedding_cache.
C10_MalformedRejected ==
    /\ \A t \in DOMAIN embedding_cache : WellFormed(embedding_cache[t])
    /\ (IsGet /\ Returned) => WellFormed(ret.val)
    /\ (IsGet /\ ~Returned) => ret.exc = "EmbeddingServiceError"
-----------------------------------------------------------------------------
(* Properties of the alignment cache *)

SlowReturned == IsAlign /\ op.path = "slow" /\ Returned

\* C12: no key ever leaves keyword_alignment_cache, and extract_keywords and
\* get_embedding do not modify it at all.
C12_AlignmentCacheGrows ==
    [][/\ DOMAIN keyword_alignment_cache \subseteq DOMAIN keyword_alignment_cache'
       /\ op'.name \in {"extract_keywords", "get_embedding"}
              => keyword_alignment_cache' = keyword_alignment_cache]_vars

\* a clustering call on a cache that already held alignments, after which it
\* holds all three keywords
C12_Witness ==
    /\ SlowReturned /\ ~op.cold
    /\ Len(op.keywords) = 1
    /\ DOMAIN keyword_alignment_cache = Keywords

\* C13: within one align_keywords call each keyword is given a
\* representative at most once: the clusters of one call are pairwise
\* disjoint.
C13_ClustersDisjoint ==
    SlowReturned
    => \A i, j \in 1..Len(clusters) : i # j => clusters[i] \cap clusters[j] = {}

\* the input keywords similar to keyword k, k included
SimilarTo(k) ==
    {k} \cup {m \in Range(op.keywords) :
                 m # k /\ CosineGE(embedding_cache[k], embedding_cache[m], op.threshold)}

Seed(i) == op.keywords[SeedPosition(op.keywords, clusters, i)]

\* C14: scanning the input in order, a keyword seeds a new cluster exactly
\* when it is in no earlier cluster; the cluster is the seed with every
\* other input keyword at least threshold-similar to the seed, so a keyword
\* similar only to a non-seed member is left out; two seeds are never
\* threshold-similar.
C14_SeedAnchored ==
    SlowReturned
    => /\ \A i \in 1..Len(clusters) :
              /\ SeedPosition(op.keywords, clusters, i) # 0
              /\ clusters[i] = SimilarTo(Seed(i))
       /\ SeedPosition(op.keywords, clusters, Len(clusters) + 1) = 0
       /\ \A i, j \in 1..Len(clusters) :
              i # j => ~CosineGE(embedding_cache[Seed(i)], embedding_cache[Seed(j)],
                                 op.threshold)

\* "chien" is similar to the member "chats", not to the seed "chat", and is
\* left out of the first cluster
C14_Witness ==
    /\ SlowReturned
    /\ op.keywords = <<kChat, kChats, kChien>>
    /\ clusters[1] = {kChat, kChats}
    /\ CosineGE(embedding_cache[kChats], embedding_cache[kChien], op.threshold)
    /\ ~CosineGE(embedding_cache[kChat], embedding_cache[kChien], op.threshold)

\* C15: the representative of each cluster is a member whose number of
\* occurrences in the input is maximal among the members, the earliest in
\* the input among those that tie.
C15_MostFrequentFirst ==
    SlowReturned
    => \A i \in 1..Len(clusters) :
           /\ ret.val[i] \in clusters[i]
           /\ \A m \in clusters[i] :
                  /\ Count(op.keywords, m) <= Count(op.keywords, ret.val[i])
                  /\ Count(op.keywords, m) = Count(op.keywords, ret.val[i])
                         => FirstIndex(op.keywords, ret.val[i])
                                <= FirstIndex(op.keywords, m)

\* "chats" occurs twice and represents the cluster seeded by "chat"
C15_Witness ==
    /\ SlowReturned
    /\ op.keywords = <<kChat, kChats, kChats>>
    /\ clusters = <<{kChat, kChats}>>
    /\ ret.val = <<kChats>>

\* s is made of consecutive items of t
IsSubList(s, t) == s \in SubLists(t)

\* C16: after a clustering call that returns, every input keyword is a key of
\* keyword_alignment_cache, aligned to the representative of a cluster of
\* that call that contains it; a call that follows at once on the same list
\* or on a sub-list of it is answered from the cache, with no request to the
\* embedding service.
C16_AllAlignedThenCached ==
    [][SlowReturned
       => /\ \A i \in 1..Len(op.keywords) :
                 /\ op.keywords[i] \in DOMAIN keyword_alignment_cache
                 /\ \E c \in 1..Len(clusters) :
                        /\ op.keywords[i] \in clusters[c]
                        /\ keyword_alignment_cache[op.keywords[i]] = ret.val[c]
          /\ (op'.name = "align_keywords" /\ IsSubList(op'.keywords, op.keywords))
                 => /\ op'.path \in {"fast", "empty"}
                    /\ ret' = Value([i \in 1..Len(op'.keywords) |->
                                        keyword_alignment_cache[op'.keywords[i]]])
                    /\ calls' = <<>>
                    /\ embedding_cache' = embedding_cache
                    /\ keyword_alignment_cache' = keyword_alignment_cache]_vars

\* a clustering call on three keywords, two of them new to the cache
C16_Witness ==
    /\ SlowReturned /\ ~op.cold
    /\ Cardinality(Range(op.keywords)) = 3
    /\ Len(calls) = 2
    /\ \A k \in Keywords : k \in DOMAIN keyword_alignment_cache

Last(s) == s[Len(s)]

\* C17: when the embedding service fails for a keyword during a clustering
\* call, the failure is raised to the caller, the service is asked once for
\* that keyword, keyword_alignment_cache is left as it was and
\* embedding_cache gains exactly the entries fetched before the failure.
C17_FailurePropagates ==
    [][(op'.name = "align_keywords" /\ calls' # <<>>
        /\ Last(calls') \notin DOMAIN embedding_cache')
       => /\ ret' = Raise("ServiceFailure")
          /\ Cardinality({i \in 1..Len(calls') : calls'[i] = Last(calls')}) = 1
          /\ keyword_alignment_cache' = keyword_alignment_cache
          /\ DOMAIN embedding_cache' =
                 DOMAIN embedding_cache
                     \cup {calls'[i] : i \in 1..(Len(calls') - 1)}
          /\ \A t \in DOMAIN embedding_cache :
                 embedding_cache'[t] = embedding_cache[t]]_vars

\* the service failed for the third keyword after answering for two
C17_Witness ==
    /\ IsAlign /\ ret = Raise("ServiceFailure")
    /\ Len(calls) = 3
    /\ Cardinality(DOMAIN embedding_cache) = 2
    /\ calls[3] \notin DOMAIN embedding_cache

\* C18 as stated: every value of keyword_alignment_cache is a key of the
\* cache that maps to itself.
C18_FixedPoints ==
    \A k \in DOMAIN keyword_alignment_cache :
        /\ keyword_alignment_cache[k] \in DOMAIN keyword_alignment_cache
        /\ keyword_alignment_cache[keyword_alignment_cache[k]]
               = keyword_alignment_cache[k]

\* C18 as amended: every value of keyword_alignment_cache is a key of the
\* cache.
C18_ValuesAreKeys ==
    \A k \in DOMAIN keyword_alignment_cache :
        keyword_alignment_cache[k] \in DOMAIN keyword_alignment_cache

\* "chat" is aligned to "chats", which a later call has aligned to "chien"
C18_Witness ==
    /\ DOMAIN keyword_alignment_cache = Keywords
    /\ keyword_alignment_cache[kChat] = kChats
    /\ keyword_alignment_cache[kChats] = kChien
-----------------------------------------------------------------------------
(* Properties of analyze_md *)

\* C11: for a file that is unreadable, empty or shorter than 200 characters
\* analyze_md returns None with extract_keywords, the embedding service and
\* the LLM never invoked; a document of 200 characters or more passes the
\* guard.
C11_ShortDocumentGuard ==
    analysis.done
    => /\ (~analysis.file.readable \/ Len(analysis.file.content) < 200)
              => /\ analysis.result = "None"
                 /\ ~analysis.extracted
                 /\ ~analysis.llm
                 /\ op = NoOp
                 /\ calls = <<>>
                 /\ embedding_cache = EmptyFn
       /\ (analysis.file.readable /\ Len(analysis.file.content) >= 200)
              => analysis.extracted

\* a document of 199 characters has been turned away
C11_Witness ==
    /\ analysis.done
    /\ analysis.file.readable
    /\ Len(analysis.file.content) = 199
    /\ analysis.result = "None"
    /\ ~analysis.extracted
====
